---- MODULE Spec2Model ----
(***************************************************************************)
(* Model of the output_format crate (src/output_format/src/lib.rs): the    *)
(* Formatting enum with its Display and FromStr implementations, and the   *)
(* OutputFormat trait with its default output_print and its container      *)
(* implementations (Vec, BTreeSet, HashSet, HashMap, BTreeMap<K, Vec<V>>). *)
(*                                                                         *)
(* A string is a sequence of characters, a character is a one-character    *)
(* TLA+ string (or a "U+xxxx" token for a non-ASCII code point).  One call *)
(* of the library is one behaviour: Init chooses the call and its          *)
(* arguments, the action of the called function runs it to completion.     *)
(***************************************************************************)
EXTENDS Naturals, Sequences, FiniteSets

VARIABLES
    pc,         \* "call": the call is about to run; "done": it has returned or panicked
    input,      \* the pending call: [op, text, fmt, ty, val]
    result,     \* the Result of from_str / the String of to_string
    out,        \* the println!/eprintln! calls made so far, in order
    panicked,   \* "none", or the panic site the call unwound from
    displayed,  \* the variant whose to_string() text is the input of from_str, or "none"
    colorize    \* whether the colored crate emits ANSI codes (terminal and environment)

vars == <<pc, input, result, out, panicked, displayed, colorize>>

RECURSIVE trim_start(_), to_lowercase(_), join(_, _)
RECURSIVE output_headers(_), output_print(_, _, _)
RECURSIVE serialize_body(_, _), serializable(_, _), ValuesUpTo(_, _, _)

----------------------------------------------------------------------------
(* Bounds of the model *)

\* longest run of whitespace put before / after a name
MaxPad == 1
\* longest string of the free-form inputs of from_str
MaxGarbageLen == 3
\* most records in a sequence of records
MaxItems == 2
\* most records in one group of a map-of-groups
MaxGroup == 2
\* most elements of a container whose elements are themselves containers
MaxOuter == 1
\* most records in a container that is itself an element of a container
MaxInner == 1

----------------------------------------------------------------------------
(* Characters and strings *)

LowerAlpha == <<"a","b","c","d","e","f","g","h","i","j","k","l","m",
                "n","o","p","q","r","s","t","u","v","w","x","y","z">>
UpperAlpha == <<"A","B","C","D","E","F","G","H","I","J","K","L","M",
                "N","O","P","Q","R","S","T","U","V","W","X","Y","Z">>

\* char::is_whitespace: the Unicode White_Space code points; the ones in use here
WhiteSpace == {" ", "\t", "\n", "U+00A0"}

\* char::to_lowercase: ASCII letters, KELVIN SIGN (U+212A -> k), and the one
\* code point whose lowercase is two code points (U+0130 -> i, U+0307)
LowerOf(c) ==
    IF \E i \in 1..Len(UpperAlpha) : UpperAlpha[i] = c
    THEN <<LowerAlpha[CHOOSE i \in 1..Len(UpperAlpha) : UpperAlpha[i] = c]>>
    ELSE IF c = "U+212A" THEN <<"k">>
    ELSE IF c = "U+0130" THEN <<"i", "U+0307">>
    ELSE <<c>>

\* char::to_uppercase on the ASCII letters
UpperOf(c) ==
    IF \E i \in 1..Len(LowerAlpha) : LowerAlpha[i] = c
    THEN UpperAlpha[CHOOSE i \in 1..Len(LowerAlpha) : LowerAlpha[i] = c]
    ELSE c

\* str::to_lowercase
to_lowercase(s) == IF s = <<>> THEN <<>> ELSE LowerOf(Head(s)) \o to_lowercase(Tail(s))

Reverse(s) == [i \in 1..Len(s) |-> s[Len(s) + 1 - i]]

trim_start(s) ==
    IF s # <<>> /\ Head(s) \in WhiteSpace THEN trim_start(Tail(s)) ELSE s

trim_end(s) == Reverse(trim_start(Reverse(s)))

\* a trim that forgets the trailing whitespace
trim_start_only(s) == trim_start(s)

\* str::trim: leading and trailing whitespace removed
trim(s) == trim_end(trim_start(s))

\* [String]::join
join(ss, sep) ==
    IF ss = <<>> THEN <<>>
    ELSE IF Len(ss) = 1 THEN ss[1]
    ELSE ss[1] \o sep \o join(Tail(ss), sep)

----------------------------------------------------------------------------
(* enum Formatting, Display and FromStr *)

Formatting == {"Id", "Compact", "Tab", "Csv", "Yaml", "Json"}

\* a Display that names the Yaml variant "yml"
display_yml(f) ==
    CASE f = "Id"      -> <<"i","d">>
      [] f = "Compact" -> <<"c","o","m","p","a","c","t">>
      [] f = "Tab"     -> <<"t","a","b">>
      [] f = "Csv"     -> <<"c","s","v">>
      [] f = "Yaml"    -> <<"y","m","l">>
      [] f = "Json"    -> <<"j","s","o","n">>

\* #[display("...")] of each variant
display(f) ==
    CASE f = "Id"      -> <<"i","d">>
      [] f = "Compact" -> <<"c","o","m","p","a","c","t">>
      [] f = "Tab"     -> <<"t","a","b">>
      [] f = "Csv"     -> <<"c","s","v">>
      [] f = "Yaml"    -> <<"y","a","m","l">>
      [] f = "Json"    -> <<"j","s","o","n">>

Ok(v) == [ok |-> TRUE, val |-> v]
Err(e) == [ok |-> FALSE, val |-> e]

\* <Formatting as FromStr>::from_str
from_str(s) ==
    LET t == to_lowercase(trim(s)) IN
    CASE t = <<"i","d">>                         -> Ok("Id")
      [] t = <<"c","o","m","p","a","c","t">>     -> Ok("Compact")
      [] t = <<"t","a","b">>                     -> Ok("Tab")
      [] t = <<"c","s","v">>                     -> Ok("Csv")
      [] t = <<"y","a","m","l">>                 -> Ok("Yaml")
      [] t = <<"j","s","o","n">>                 -> Ok("Json")
      [] OTHER                                   -> Err("Unknown format name")

----------------------------------------------------------------------------
(* Printable values.  A type is the sequence of its constructors, outermost *)
(* first: <<"R">> is a record type implemented by the caller, <<"Vec","R">> *)
(* is Vec<R>, <<"BTreeMap","Vec","R">> is BTreeMap<String, Vec<R>>, and     *)
(* <<"HashMap","Vec","R">> is HashMap<String, Vec<R>>.  A sequence is the   *)
(* sequence of its elements; a set or a map is the sequence of its elements *)
(* or [k, v] entries in iteration order.                                    *)

\* a record type R of the caller: what its OutputCompact, OutputFormat and
\* Serialize implementations return for each of its values
RecordList ==
    << [id |-> <<"x">>, compact |-> <<"x",":","0">>, fields |-> << <<"1">>, <<"2">> >>, ser |-> TRUE],
       [id |-> <<"y">>, compact |-> <<"y",":","1">>, fields |-> << <<"3">>, <<"4">> >>, ser |-> TRUE],
       [id |-> <<"z">>, compact |-> <<"z",":","2">>, fields |-> << <<"5">>, <<"6">> >>, ser |-> FALSE] >>

Records == {RecordList[i] : i \in 1..Len(RecordList)}

\* R::output_headers()
RecordHeaders == << <<"A">>, <<"B">> >>

\* the map keys (K = String), in their Ord order
KeyList == << <<"a">>, <<"k">> >>

Keys == {KeyList[i] : i \in 1..Len(KeyList)}

\* <R as Ord>::cmp and <String as Ord>::cmp, as the position in the lists above
RecRank(r) == CHOOSE i \in 1..Len(RecordList) : RecordList[i] = r
KeyRank(k) == CHOOSE i \in 1..Len(KeyList) : KeyList[i] = k

Min(a, b) == IF a < b THEN a ELSE b

BSeq(S, n) == UNION {[1..k -> S] : k \in 0..n}

Injective(s) == \A i, j \in 1..Len(s) : i # j => s[i] # s[j]

DistinctKeys(s) == \A i, j \in 1..Len(s) : i # j => s[i].k # s[j].k

Types ==
    { <<"R">>, <<"Vec","R">>, <<"BTreeSet","R">>, <<"HashSet","R">>, <<"HashMap","R">>,
      <<"BTreeMap","Vec","R">>,
      <<"Vec","Vec","R">>, <<"HashMap","Vec","R">>, <<"Vec","HashMap","R">>,
      <<"HashMap","HashMap","R">> }

\* the values of type T with at most n records in a container of records (a
\* group of a BTreeMap apart: at most g) and at most MaxOuter containers in a
\* container of containers, themselves of at most MaxInner records: a
\* BTreeSet iterates in Ord order without duplicates, a BTreeMap in key
\* order; a HashSet or a HashMap iterates in any order
ValuesUpTo(T, n, g) ==
    CASE Head(T) = "R" -> Records
      [] Head(T) = "Vec" ->
            IF Tail(T) = <<"R">> THEN BSeq(Records, n)
            ELSE BSeq(ValuesUpTo(Tail(T), MaxInner, MaxInner), MaxOuter)
      [] Head(T) = "BTreeSet" ->
            {s \in BSeq(Records, Len(RecordList)) :
                \A i \in 1..(Len(s) - 1) : RecRank(s[i]) < RecRank(s[i + 1])}
      [] Head(T) = "HashSet" ->
            {s \in BSeq(Records, Min(n, Len(RecordList))) : Injective(s)}
      [] Head(T) = "HashMap" ->
            IF Tail(T) = <<"R">>
            THEN {s \in BSeq([k : Keys, v : Records], Min(n, Len(KeyList))) : DistinctKeys(s)}
            ELSE {s \in BSeq([k : Keys, v : ValuesUpTo(Tail(T), MaxInner, MaxInner)],
                             Min(MaxOuter, Len(KeyList))) : DistinctKeys(s)}
      [] Head(T) = "BTreeMap" ->
            {s \in BSeq([k : Keys, v : BSeq(Records, g)], Len(KeyList)) :
                \A i \in 1..(Len(s) - 1) : KeyRank(s[i].k) < KeyRank(s[i + 1].k)}

Values(T) == ValuesUpTo(T, MaxItems, MaxGroup)

----------------------------------------------------------------------------
(* Effects of a call: the print calls it made and the panic that ended it *)

Skip == [out |-> <<>>, panic |-> "none"]
Panic(site) == [out |-> <<>>, panic |-> site]
Then(a, b) == IF a.panic # "none" THEN a ELSE [out |-> a.out \o b.out, panic |-> b.panic]

\* println!("{}", text) and eprintln!("{}", text): one call, one entry
Println(text) == [out |-> << [stream |-> "stdout", text |-> text] >>, panic |-> "none"]
Eprintln(text) == [out |-> << [stream |-> "stderr", text |-> text] >>, panic |-> "none"]

\* a value or the panic of the method that should have returned it
Val(v) == [panic |-> "none", val |-> v]
Unwound(site) == [panic |-> site, val |-> <<>>]

\* colored::Colorize: the text between the colour's escape code and the reset
\* code when colouring is on, the text itself when it is off
Styled(text, code) == IF colorize THEN <<code>> \o text \o <<"ESC[0m">> ELSE text
bright_green(text) == Styled(text, "ESC[92m")
bright_white(text) == Styled(text, "ESC[97m")
red(text) == Styled(text, "ESC[31m")

NoItems == <<"N","o"," ","i","t","e","m","s">>
ID == <<"I","D">>
TAB == <<"\t">>
COMMA == <<",">>
HASH == <<"#">>

----------------------------------------------------------------------------
(* The serializers (serde_yaml::to_string, serde_json::to_string) *)

\* whether <T as Serialize>::serialize succeeds on v
serializable(T, v) ==
    CASE Head(T) = "R" -> v.ser
      [] Head(T) \in {"Vec", "BTreeSet", "HashSet"} ->
            \A i \in 1..Len(v) : serializable(Tail(T), v[i])
      [] OTHER -> \A i \in 1..Len(v) : serializable(Tail(T), v[i].v)

\* the structure a serializer writes for v
serialize_body(T, v) ==
    CASE Head(T) = "R" -> <<"{">> \o v.id \o <<"}">>
      [] Head(T) \in {"Vec", "BTreeSet", "HashSet"} ->
            <<"[">> \o join([i \in 1..Len(v) |-> serialize_body(Tail(T), v[i])], COMMA) \o <<"]">>
      [] OTHER ->
            <<"{">> \o join([i \in 1..Len(v) |->
                               v[i].k \o <<":">> \o serialize_body(Tail(T), v[i].v)], COMMA)
                    \o <<"}">>

serde_yaml_to_string(T, v) ==
    IF serializable(T, v) THEN Ok(<<"yaml">> \o serialize_body(T, v) \o <<"\n">>) ELSE Err(<<>>)

serde_json_to_string(T, v) ==
    IF serializable(T, v) THEN Ok(<<"json">> \o serialize_body(T, v)) ELSE Err(<<>>)

\* Result<String, _>::unwrap_or_default
unwrap_or_default(r) == IF r.ok THEN r.val ELSE <<>>

----------------------------------------------------------------------------
(* trait OutputCompact, trait OutputFormat and their implementations.  The *)
(* type parameter of an implementation is passed first: T is the element   *)
(* type of Vec<T>, V the record type of HashMap<K, V> and of               *)
(* BTreeMap<K, Vec<V>>.                                                    *)

\* T::output_headers(): of the record type, of the sets and sequences
\* (unreachable!()), of the two maps ("ID" and then V's headers)
output_headers(T) ==
    CASE Head(T) = "R" -> Val(RecordHeaders)
      [] Head(T) = "Vec" -> Unwound("Vec::output_headers")
      [] Head(T) = "BTreeSet" -> Unwound("BTreeSet::output_headers")
      [] Head(T) = "HashSet" -> Unwound("HashSet::output_headers")
      [] Head(T) = "HashMap" ->
            LET h == output_headers(Tail(T)) IN
            IF h.panic # "none" THEN h ELSE Val(<<ID>> \o h.val)
      [] Head(T) = "BTreeMap" ->
            LET h == output_headers(Tail(Tail(T))) IN
            IF h.panic # "none" THEN h ELSE Val(<<ID>> \o h.val)

\* self.output_compact()
output_compact(T, v) ==
    CASE Head(T) = "R" -> Val(v.compact)
      [] Head(T) = "Vec" -> Unwound("Vec::output_compact")
      [] Head(T) = "BTreeSet" -> Unwound("BTreeSet::output_compact")
      [] Head(T) = "HashSet" -> Unwound("HashSet::output_compact")
      [] Head(T) = "HashMap" -> Unwound("HashMap::output_compact")
      [] Head(T) = "BTreeMap" -> Unwound("BTreeMap::output_compact")

\* self.output_id_string()
output_id_string(T, v) ==
    CASE Head(T) = "R" -> Val(v.id)
      [] Head(T) = "Vec" -> Unwound("Vec::output_id_string")
      [] Head(T) = "BTreeSet" -> Unwound("BTreeSet::output_id_string")
      [] Head(T) = "HashSet" -> Unwound("HashSet::output_id_string")
      [] Head(T) = "HashMap" -> Unwound("HashMap::output_id_string")
      [] Head(T) = "BTreeMap" -> Unwound("BTreeMap::output_id_string")

\* self.output_fields()
output_fields(T, v) ==
    CASE Head(T) = "R" -> Val(v.fields)
      [] Head(T) = "Vec" -> Unwound("Vec::output_fields")
      [] Head(T) = "BTreeSet" -> Unwound("BTreeSet::output_fields")
      [] Head(T) = "HashSet" -> Unwound("HashSet::output_fields")
      [] Head(T) = "HashMap" -> Unwound("HashMap::output_fields")
      [] Head(T) = "BTreeMap" -> Unwound("BTreeMap::output_fields")

\* println!("{}", r) of a value that a method computes: the method's panic
\* comes before the print
PrintlnVal(r) == IF r.panic # "none" THEN Panic(r.panic) ELSE Println(r.val)

\* println!("{}..{}", pre, r.join(sep)) with r the fields a method computes
PrintlnJoined(pre, r, sep) ==
    IF r.panic # "none" THEN Panic(r.panic) ELSE Println(pre \o join(r.val, sep))

\* the header line of the container implementations: Tab prints the headers
\* in bright green, Csv prints them plain, the other formats print nothing
print_headers(headers, format) ==
    IF format = "Tab" THEN Println(bright_green(join(headers, TAB)))
    ELSE IF format = "Csv" THEN Println(join(headers, COMMA))
    ELSE Skip

\* a default method that unwraps the serializer's result
failing_serializer_panics(T, v, format) ==
    CASE format = "Id" -> PrintlnVal(output_id_string(T, v))
      [] format = "Compact" -> PrintlnVal(output_compact(T, v))
      [] format = "Tab" -> PrintlnJoined(<<>>, output_fields(T, v), TAB)
      [] format = "Csv" -> PrintlnJoined(<<>>, output_fields(T, v), COMMA)
      [] format = "Yaml" ->
            IF serde_yaml_to_string(T, v).ok
            THEN Println(serde_yaml_to_string(T, v).val) ELSE Panic("unwrap")
      [] format = "Json" ->
            IF serde_json_to_string(T, v).ok
            THEN Println(serde_json_to_string(T, v).val) ELSE Panic("unwrap")

\* OutputFormat::output_print, the default method: the printer of one value
default_output_print(T, v, format) ==
    CASE format = "Id" -> PrintlnVal(output_id_string(T, v))
      [] format = "Compact" -> PrintlnVal(output_compact(T, v))
      [] format = "Tab" -> PrintlnJoined(<<>>, output_fields(T, v), TAB)
      [] format = "Csv" -> PrintlnJoined(<<>>, output_fields(T, v), COMMA)
      [] format = "Yaml" -> Println(unwrap_or_default(serde_yaml_to_string(T, v)))
      [] format = "Json" -> Println(unwrap_or_default(serde_json_to_string(T, v)))

\* self.iter().for_each(|t| t.output_print(format))
for_each_print(T, items, format) ==
    LET RECURSIVE go(_)
        go(i) == IF i > Len(items) THEN Skip
                 ELSE Then(output_print(T, items[i], format), go(i + 1))
    IN go(1)

\* a Vec printer that writes the header line after the rows
vec_output_print_header_last(T, v, format) ==
    IF v = <<>> THEN Eprintln(red(NoItems))
    ELSE LET headers == output_headers(T) IN
         IF headers.panic # "none" THEN Panic(headers.panic)
         ELSE Then(for_each_print(T, v, format), print_headers(headers.val, format))

\* a Vec printer that writes one document of the whole sequence, as the maps do
vec_output_print_aggregate(T, v, format) ==
    IF v = <<>> THEN Eprintln(red(NoItems))
    ELSE LET headers == output_headers(T) IN
         IF headers.panic # "none" THEN Panic(headers.panic)
         ELSE Then(print_headers(headers.val, format),
                   CASE format = "Yaml" ->
                          Println(unwrap_or_default(serde_yaml_to_string(<<"Vec">> \o T, v)))
                     [] format = "Json" ->
                          Println(unwrap_or_default(serde_json_to_string(<<"Vec">> \o T, v)))
                     [] OTHER -> for_each_print(T, v, format))

\* <Vec<T> as OutputFormat>::output_print
vec_output_print(T, v, format) ==
    IF v = <<>> THEN Eprintln(red(NoItems))
    ELSE LET headers == output_headers(T) IN
         IF headers.panic # "none" THEN Panic(headers.panic)
         ELSE Then(print_headers(headers.val, format), for_each_print(T, v, format))

\* <BTreeSet<T> as OutputFormat>::output_print
btreeset_output_print(T, v, format) ==
    IF v = <<>> THEN Eprintln(red(NoItems))
    ELSE LET headers == output_headers(T) IN
         IF headers.panic # "none" THEN Panic(headers.panic)
         ELSE Then(print_headers(headers.val, format), for_each_print(T, v, format))

\* <HashSet<T> as OutputFormat>::output_print
hashset_output_print(T, v, format) ==
    IF v = <<>> THEN Eprintln(red(NoItems))
    ELSE LET headers == output_headers(T) IN
         IF headers.panic # "none" THEN Panic(headers.panic)
         ELSE Then(print_headers(headers.val, format), for_each_print(T, v, format))

\* an entry closure whose Id arm prints the record's identifier string
hashmap_entry_id_string(V, id, rec, format) ==
    CASE format = "Id" -> PrintlnVal(output_id_string(V, rec))
      [] format = "Compact" ->
            LET c == output_compact(V, rec) IN
            IF c.panic # "none" THEN Panic(c.panic) ELSE Println(c.val \o HASH \o id)
      [] format = "Tab" -> PrintlnJoined(id \o TAB, output_fields(V, rec), TAB)
      [] format = "Csv" -> PrintlnJoined(id \o COMMA, output_fields(V, rec), COMMA)
      [] OTHER -> Panic("HashMap::output_print::unreachable")

\* the closure |(id, rec)| match format { .. } of HashMap's output_print
hashmap_entry(V, id, rec, format) ==
    CASE format = "Id" -> Println(id)
      [] format = "Compact" ->
            LET c == output_compact(V, rec) IN
            IF c.panic # "none" THEN Panic(c.panic) ELSE Println(c.val \o HASH \o id)
      [] format = "Tab" -> PrintlnJoined(id \o TAB, output_fields(V, rec), TAB)
      [] format = "Csv" -> PrintlnJoined(id \o COMMA, output_fields(V, rec), COMMA)
      [] OTHER -> Panic("HashMap::output_print::unreachable")

\* self.iter().for_each(|(id, rec)| ..) of HashMap's output_print
hashmap_for_each(V, entries, format) ==
    LET RECURSIVE go(_)
        go(i) == IF i > Len(entries) THEN Skip
                 ELSE Then(hashmap_entry(V, entries[i].k, entries[i].v, format), go(i + 1))
    IN go(1)

\* a HashMap printer that writes the header line in every format
hashmap_output_print_header_always(V, v, format) ==
    IF v = <<>> THEN Eprintln(red(NoItems))
    ELSE LET headers == output_headers(<<"HashMap">> \o V) IN
         IF headers.panic # "none" THEN Panic(headers.panic)
         ELSE Then(IF format = "Tab" THEN Println(bright_green(join(headers.val, TAB)))
                   ELSE Println(join(headers.val, COMMA)),
                   CASE format = "Yaml" ->
                          Println(unwrap_or_default(serde_yaml_to_string(<<"HashMap">> \o V, v)))
                     [] format = "Json" ->
                          Println(unwrap_or_default(serde_json_to_string(<<"HashMap">> \o V, v)))
                     [] OTHER -> hashmap_for_each(V, v, format))

\* <HashMap<K, V> as OutputFormat>::output_print
hashmap_output_print(V, v, format) ==
    IF v = <<>> THEN Eprintln(red(NoItems))
    ELSE LET headers == output_headers(<<"HashMap">> \o V) IN
         IF headers.panic # "none" THEN Panic(headers.panic)
         ELSE Then(print_headers(headers.val, format),
                   CASE format = "Yaml" ->
                          Println(unwrap_or_default(serde_yaml_to_string(<<"HashMap">> \o V, v)))
                     [] format = "Json" ->
                          Println(unwrap_or_default(serde_json_to_string(<<"HashMap">> \o V, v)))
                     [] OTHER -> hashmap_for_each(V, v, format))

\* the closure |rec| match format { .. } of BTreeMap's output_print; id is
\* the key as a ColoredString
btreemap_record(V, id, rec, format) ==
    CASE format = "Id" -> Println(id)
      [] format = "Compact" ->
            LET c == output_compact(V, rec) IN
            IF c.panic # "none" THEN Panic(c.panic) ELSE Println(c.val \o HASH \o id)
      [] format = "Tab" -> PrintlnJoined(id \o TAB, output_fields(V, rec), TAB)
      [] format = "Csv" -> PrintlnJoined(id \o COMMA, output_fields(V, rec), COMMA)
      [] OTHER -> Panic("BTreeMap::output_print::unreachable")

\* a group closure that prints the first record of the group only
btreemap_entry_first_record(V, key, details, format) ==
    IF details = <<>> THEN Skip
    ELSE btreemap_record(V, bright_white(key), details[1], format)

\* the closure |(id, details)| { .. } of BTreeMap's output_print
btreemap_entry(V, key, details, format) ==
    LET id == bright_white(key)
        RECURSIVE go(_)
        go(i) == IF i > Len(details) THEN Skip
                 ELSE Then(btreemap_record(V, id, details[i], format), go(i + 1))
    IN go(1)

\* self.iter().for_each(|(id, details)| ..) of BTreeMap's output_print
btreemap_for_each(V, entries, format) ==
    LET RECURSIVE go(_)
        go(i) == IF i > Len(entries) THEN Skip
                 ELSE Then(btreemap_entry(V, entries[i].k, entries[i].v, format), go(i + 1))
    IN go(1)

\* a BTreeMap printer whose empty check is self.is_empty()
btreemap_output_print_is_empty(V, v, format) ==
    IF v = <<>> THEN Eprintln(red(NoItems))
    ELSE LET headers == output_headers(<<"BTreeMap", "Vec">> \o V) IN
         IF headers.panic # "none" THEN Panic(headers.panic)
         ELSE Then(print_headers(headers.val, format),
                   CASE format = "Yaml" ->
                          Println(unwrap_or_default(
                                    serde_yaml_to_string(<<"BTreeMap", "Vec">> \o V, v)))
                     [] format = "Json" ->
                          Println(unwrap_or_default(
                                    serde_json_to_string(<<"BTreeMap", "Vec">> \o V, v)))
                     [] OTHER -> btreemap_for_each(V, v, format))

\* <BTreeMap<K, Vec<V>> as OutputFormat>::output_print
btreemap_output_print(V, v, format) ==
    IF \A i \in 1..Len(v) : v[i].v = <<>> THEN Eprintln(red(NoItems))
    ELSE LET headers == output_headers(<<"BTreeMap", "Vec">> \o V) IN
         IF headers.panic # "none" THEN Panic(headers.panic)
         ELSE Then(print_headers(headers.val, format),
                   CASE format = "Yaml" ->
                          Println(unwrap_or_default(
                                    serde_yaml_to_string(<<"BTreeMap", "Vec">> \o V, v)))
                     [] format = "Json" ->
                          Println(unwrap_or_default(
                                    serde_json_to_string(<<"BTreeMap", "Vec">> \o V, v)))
                     [] OTHER -> btreemap_for_each(V, v, format))

\* value.output_print(format): the implementation the value's type selects
output_print(T, v, format) ==
    CASE Head(T) = "R" -> default_output_print(T, v, format)
      [] Head(T) = "Vec" -> vec_output_print(Tail(T), v, format)
      [] Head(T) = "BTreeSet" -> btreeset_output_print(Tail(T), v, format)
      [] Head(T) = "HashSet" -> hashset_output_print(Tail(T), v, format)
      [] Head(T) = "HashMap" -> hashmap_output_print(Tail(T), v, format)
      [] Head(T) = "BTreeMap" -> btreemap_output_print(Tail(Tail(T)), v, format)

----------------------------------------------------------------------------
(* The calls *)

\* the strings given to from_str: every canonical name in every casing between
\* every two paddings, every short string over a few characters, and the
\* names with one character dropped, replaced or pushed away by a space
PadChars == {" ", "\t"}
GarbageChars == {"i", "d", "I", " ", "x", "U+0130", "U+00A0"}

Names == { <<"i","d">>, <<"c","o","m","p","a","c","t">>, <<"t","a","b">>, <<"c","s","v">>,
           <<"y","a","m","l">>, <<"j","s","o","n">> }

Casings(n) ==
    { [i \in 1..Len(n) |-> IF i \in U THEN UpperOf(n[i]) ELSE n[i]] : U \in SUBSET (1..Len(n)) }

Padded == { l \o c \o r : l \in BSeq(PadChars, MaxPad), r \in BSeq(PadChars, MaxPad),
                          c \in UNION {Casings(n) : n \in Names} }

NearMisses ==
    UNION { UNION { { SubSeq(n, 1, i - 1) \o SubSeq(n, i + 1, Len(n)),
                      SubSeq(n, 1, i - 1) \o <<"x">> \o SubSeq(n, i + 1, Len(n)),
                      SubSeq(n, 1, i) \o <<" ">> \o SubSeq(n, i + 1, Len(n)),
                      SubSeq(n, 1, i) \o <<"U+0130">> \o SubSeq(n, i + 1, Len(n)),
                      n \o n }
                    : i \in 1..Len(n) } : n \in Names }

Texts == Padded \cup BSeq(GarbageChars, MaxGarbageLen) \cup NearMisses

NoResult == [ok |-> FALSE, val |-> "none"]

ParseCall(t) == [op |-> "from_str", text |-> t, fmt |-> "Id", ty |-> <<>>, val |-> <<>>]
DisplayCall(f) == [op |-> "to_string", text |-> <<>>, fmt |-> f, ty |-> <<>>, val |-> <<>>]
PrintCall(T, v, f) == [op |-> "output_print", text |-> <<>>, fmt |-> f, ty |-> T, val |-> v]

Init ==
    /\ pc = "call"
    /\ result = NoResult
    /\ out = <<>>
    /\ panicked = "none"
    /\ displayed = "none"
    /\ colorize \in BOOLEAN
    /\ \/ \E t \in Texts : input = ParseCall(t)
       \/ \E f \in Formatting : input = DisplayCall(f)
       \/ \E T \in Types : \E v \in Values(T) : \E f \in Formatting : input = PrintCall(T, v, f)

\* Formatting::from_str(text)
FromStr ==
    /\ pc = "call"
    /\ input.op = "from_str"
    /\ result' = from_str(input.text)
    /\ pc' = "done"
    /\ UNCHANGED <<input, out, panicked, displayed, colorize>>

\* format.to_string(), whose text is then given to from_str
ToString ==
    /\ pc = "call"
    /\ input.op = "to_string"
    /\ input' = ParseCall(display(input.fmt))
    /\ displayed' = input.fmt
    /\ UNCHANGED <<pc, result, out, panicked, colorize>>

Ran(eff) ==
    /\ out' = eff.out
    /\ panicked' = eff.panic
    /\ pc' = "done"
    /\ UNCHANGED <<input, result, displayed, colorize>>

\* record.output_print(format)
PrintRecord ==
    /\ pc = "call" /\ input.op = "output_print" /\ Head(input.ty) = "R"
    /\ Ran(default_output_print(input.ty, input.val, input.fmt))

PrintVec ==
    /\ pc = "call" /\ input.op = "output_print" /\ Head(input.ty) = "Vec"
    /\ Ran(vec_output_print(Tail(input.ty), input.val, input.fmt))

PrintBTreeSet ==
    /\ pc = "call" /\ input.op = "output_print" /\ Head(input.ty) = "BTreeSet"
    /\ Ran(btreeset_output_print(Tail(input.ty), input.val, input.fmt))

PrintHashSet ==
    /\ pc = "call" /\ input.op = "output_print" /\ Head(input.ty) = "HashSet"
    /\ Ran(hashset_output_print(Tail(input.ty), input.val, input.fmt))

PrintHashMap ==
    /\ pc = "call" /\ input.op = "output_print" /\ Head(input.ty) = "HashMap"
    /\ Ran(hashmap_output_print(Tail(input.ty), input.val, input.fmt))

PrintBTreeMap ==
    /\ pc = "call" /\ input.op = "output_print" /\ Head(input.ty) = "BTreeMap"
    /\ Ran(btreemap_output_print(Tail(Tail(input.ty)), input.val, input.fmt))

Next ==
    \/ FromStr
    \/ ToString
    \/ PrintRecord
    \/ PrintVec
    \/ PrintBTreeSet
    \/ PrintHashSet
    \/ PrintHashMap
    \/ PrintBTreeMap

Spec == Init /\ [][Next]_vars

----------------------------------------------------------------------------
(* What the claims speak of *)

IsStdout(w) == w.stream = "stdout"
IsStderr(w) == w.stream = "stderr"

\* the texts given to println! / eprintln!, in order
StdoutLines == LET o == SelectSeq(out, IsStdout) IN [i \in 1..Len(o) |-> o[i].text]
StderrLines == LET o == SelectSeq(out, IsStderr) IN [i \in 1..Len(o) |-> o[i].text]

AnsiCodes == {"ESC[92m", "ESC[97m", "ESC[31m", "ESC[0m"}
NotAnsi(c) == c \notin AnsiCodes

\* a line as it reads, without the terminal styling
Plain(line) == SelectSeq(line, NotAnsi)

Printed(T) == pc = "done" /\ input.op = "output_print" /\ input.ty = T

Delim(format) == IF format = "Tab" THEN TAB ELSE COMMA

\* the canonical name of each variant
CanonicalName(f) ==
    CASE f = "Id"      -> <<"i","d">>
      [] f = "Compact" -> <<"c","o","m","p","a","c","t">>
      [] f = "Tab"     -> <<"t","a","b">>
      [] f = "Csv"     -> <<"c","s","v">>
      [] f = "Yaml"    -> <<"y","a","m","l">>
      [] f = "Json"    -> <<"j","s","o","n">>

\* text is name, each letter in either case, between two runs of whitespace
IsNameInAnyCase(text, name) ==
    \E i \in 0..Len(text) :
        /\ i + Len(name) <= Len(text)
        /\ \A k \in 1..i : text[k] \in WhiteSpace
        /\ \A k \in (i + Len(name) + 1)..Len(text) : text[k] \in WhiteSpace
        /\ \A k \in 1..Len(name) : text[i + k] \in {name[k], UpperOf(name[k])}

\* C1: from_str(text) succeeds exactly when text is a canonical name in any
\* letter case between surrounding whitespace, and then returns the variant of
\* that name; every other text, the empty one included, gives the error
\* "Unknown format name".
C1_FromStrAcceptsExactlyTheNames ==
    (pc = "done" /\ input.op = "from_str") =>
        /\ \A f \in Formatting :
              IsNameInAnyCase(input.text, CanonicalName(f)) => result = Ok(f)
        /\ (\A f \in Formatting : ~IsNameInAnyCase(input.text, CanonicalName(f)))
              => result = Err("Unknown format name")
        /\ input.text = <<>> => ~result.ok

C1_Witness ==
    /\ pc = "done" /\ input.op = "from_str"
    /\ input.text = <<" ", "Y", "a", "M", "L", "\t">>
    /\ result = Ok("Yaml")

\* C2: parsing the display text of a variant gives back that variant.
C2_DisplayParseRoundTrip ==
    (pc = "done" /\ displayed # "none") => result = Ok(displayed)

C2_Witness ==
    /\ pc = "done" /\ displayed = "Yaml"
    /\ input.text = <<"y","a","m","l">>
    /\ result = Ok("Yaml")

\* a sequence, set or map with no element; a map-of-groups whose groups are
\* all empty
IsEmptyContainer(T, v) ==
    IF Head(T) = "BTreeMap" THEN \A i \in 1..Len(v) : v[i].v = <<>> ELSE v = <<>>

\* C3: in every format, printing an empty container writes nothing to
\* standard output and exactly one line, "No items", to standard error.
C3_EmptyContainer ==
    \A T \in Types \ {<<"R">>} :
        (Printed(T) /\ IsEmptyContainer(T, input.val)) =>
            /\ StdoutLines = <<>>
            /\ Len(StderrLines) = 1
            /\ Plain(StderrLines[1]) = NoItems
            /\ panicked = "none"

C3_Witness ==
    /\ Printed(<<"BTreeMap","Vec","R">>)
    /\ input.fmt = "Tab"
    /\ input.val = << [k |-> <<"a">>, v |-> <<>>], [k |-> <<"k">>, v |-> <<>>] >>
    /\ StdoutLines = <<>>
    /\ Len(StderrLines) = 1

\* C4: printing a non-empty sequence of N records in Tab or Csv writes N+1
\* lines to standard output and nothing to standard error: the header names
\* joined by the delimiter, then each record's fields joined by it, in order
\* (the Tab header as it reads on the terminal, the Csv header as written).
C4_SequenceTabCsv ==
    (Printed(<<"Vec","R">>) /\ input.val # <<>> /\ input.fmt \in {"Tab", "Csv"}) =>
        /\ panicked = "none"
        /\ StderrLines = <<>>
        /\ Len(StdoutLines) = Len(input.val) + 1
        /\ Plain(StdoutLines[1]) = join(RecordHeaders, Delim(input.fmt))
        /\ input.fmt = "Csv" => StdoutLines[1] = join(RecordHeaders, COMMA)
        /\ \A i \in 1..Len(input.val) :
              StdoutLines[i + 1] = join(input.val[i].fields, Delim(input.fmt))
        /\ (input.fmt = "Csv" /\ input.val = <<RecordList[1], RecordList[2]>>) =>
              StdoutLines = << <<"A", ",", "B">>, <<"1", ",", "2">>, <<"3", ",", "4">> >>

C4_Witness ==
    /\ Printed(<<"Vec","R">>) /\ input.fmt = "Csv"
    /\ input.val = <<RecordList[1], RecordList[2]>>
    /\ StdoutLines = << <<"A", ",", "B">>, <<"1", ",", "2">>, <<"3", ",", "4">> >>

\* the aggregate document of the whole value, or the empty string the printer
\* puts in its place when the serializer fails
AggregateDocument(T, v, format) ==
    IF format = "Yaml" THEN unwrap_or_default(serde_yaml_to_string(T, v))
    ELSE unwrap_or_default(serde_json_to_string(T, v))

\* C5: a non-empty map or map-of-groups printed in Yaml or Json makes exactly
\* one write, to standard output, of the document of the whole map: no
\* header, no line per entry or record.
C5_MapAggregateDocument ==
    \A T \in {<<"HashMap","R">>, <<"BTreeMap","Vec","R">>} :
        (Printed(T) /\ ~IsEmptyContainer(T, input.val) /\ input.fmt \in {"Yaml", "Json"}) =>
            /\ panicked = "none"
            /\ Len(out) = 1
            /\ out[1].stream = "stdout"
            /\ out[1].text = AggregateDocument(T, input.val, input.fmt)

C5_Witness ==
    /\ Printed(<<"HashMap","R">>) /\ input.fmt = "Json"
    /\ input.val = << [k |-> <<"k">>, v |-> RecordList[2]], [k |-> <<"a">>, v |-> RecordList[1]] >>
    /\ StdoutLines = << <<"json", "{", "k", ":", "{", "y", "}", ",", "a", ":", "{", "x", "}", "}">> >>

\* the lines after the header line that Tab and Csv start with
DataLines == IF input.fmt \in {"Tab", "Csv"} THEN Tail(StdoutLines) ELSE StdoutLines

\* C6: a non-empty map from key to record printed in Id, Compact, Tab or Csv
\* writes one data line per entry: the key alone (Id), the record's compact
\* text, '#' and the key (Compact), the key, the delimiter and the record's
\* fields joined by the delimiter (Tab, Csv); { "a": record1 } in Compact
\* gives "<record1-compact>#a".
C6_MapEntryLines ==
    (Printed(<<"HashMap","R">>) /\ input.val # <<>>
        /\ input.fmt \in {"Id", "Compact", "Tab", "Csv"}) =>
        /\ panicked = "none"
        /\ Len(DataLines) = Len(input.val)
        /\ \A i \in 1..Len(input.val) :
              LET e == input.val[i] IN
              DataLines[i] =
                  CASE input.fmt = "Id" -> e.k
                    [] input.fmt = "Compact" -> e.v.compact \o <<"#">> \o e.k
                    [] input.fmt = "Tab" -> e.k \o <<"\t">> \o join(e.v.fields, <<"\t">>)
                    [] input.fmt = "Csv" -> e.k \o <<",">> \o join(e.v.fields, <<",">>)
        /\ (input.fmt = "Compact" /\ input.val = << [k |-> <<"a">>, v |-> RecordList[1]] >>) =>
              StdoutLines = << <<"x", ":", "0", "#", "a">> >>

C6_Witness ==
    /\ Printed(<<"HashMap","R">>) /\ input.fmt = "Compact"
    /\ input.val = << [k |-> <<"a">>, v |-> RecordList[1]] >>
    /\ StdoutLines = << <<"x", ":", "0", "#", "a">> >>

IsPrefix(p, s) == Len(p) <= Len(s) /\ SubSeq(s, 1, Len(p)) = p

\* the map-of-groups { "k": [r1, r2] }
IsKWithTwoRecords(v) == Len(v) = 1 /\ v[1].k = <<"k">> /\ Len(v[1].v) = 2

\* C7, as claimed: { "k": [r1, r2] } printed in Tab gives two lines on
\* standard output, both starting with the key.
C7_TwoLinesInAll ==
    (Printed(<<"BTreeMap","Vec","R">>) /\ input.fmt = "Tab" /\ IsKWithTwoRecords(input.val)) =>
        /\ Len(StdoutLines) = 2
        /\ \A i \in 1..Len(StdoutLines) : IsPrefix(<<"k", "\t">>, Plain(StdoutLines[i]))

\* C7, amended: { "k": [r1, r2] } printed in Tab gives three lines on
\* standard output: the header line "ID", then the record headers, and then
\* two data lines, one per record in order, each the key, a tab and the
\* record's fields.
C7_HeaderThenTwoKeyedLines ==
    (Printed(<<"BTreeMap","Vec","R">>) /\ input.fmt = "Tab" /\ IsKWithTwoRecords(input.val)) =>
        /\ panicked = "none"
        /\ Len(StdoutLines) = 3
        /\ Plain(StdoutLines[1]) = <<"I", "D", "\t", "A", "\t", "B">>
        /\ \A i \in 1..2 :
              Plain(StdoutLines[i + 1]) =
                  <<"k", "\t">> \o join(input.val[1].v[i].fields, <<"\t">>)

C7_Witness ==
    /\ Printed(<<"BTreeMap","Vec","R">>) /\ input.fmt = "Tab" /\ ~colorize
    /\ input.val = << [k |-> <<"k">>, v |-> <<RecordList[1], RecordList[2]>>] >>
    /\ StdoutLines = << <<"I", "D", "\t", "A", "\t", "B">>,
                        <<"k", "\t", "1", "\t", "2">>,
                        <<"k", "\t", "3", "\t", "4">> >>

\* C8: when the serializer fails for a value, the single-value printer
\* writes one empty line to standard output and returns; a sequence printed
\* in Yaml or Json still prints every element after the failing one.
C8_SerializerFailureIsAnEmptyLine ==
    /\ (Printed(<<"R">>) /\ input.fmt \in {"Yaml", "Json"} /\ ~input.val.ser) =>
          /\ panicked = "none"
          /\ out = << [stream |-> "stdout", text |-> <<>>] >>
    /\ (Printed(<<"Vec","R">>) /\ input.fmt \in {"Yaml", "Json"}
            /\ \E i \in 1..Len(input.val) : ~input.val[i].ser) =>
          /\ panicked = "none"
          /\ Len(StdoutLines) = Len(input.val)
          /\ \A i \in 1..Len(input.val) :
                StdoutLines[i] = IF input.val[i].ser
                                 THEN AggregateDocument(<<"R">>, input.val[i], input.fmt)
                                 ELSE <<>>

C8_Witness ==
    /\ Printed(<<"Vec","R">>) /\ input.fmt = "Json"
    /\ input.val = <<RecordList[3], RecordList[1]>>
    /\ StdoutLines = << <<>>, <<"json", "{", "x", "}">> >>
    /\ panicked = "none"

\* what the single-value printer writes for each element in turn
PerElement(items, format) ==
    LET RECURSIVE go(_)
        go(i) == IF i > Len(items) THEN <<>>
                 ELSE default_output_print(<<"R">>, items[i], format).out \o go(i + 1)
    IN go(1)

\* C9: a non-empty sequence or set of N records printed in Yaml, Json, Id or
\* Compact writes no header and what N calls of the single-value printer
\* write, one per element in iteration order: N documents, never the one
\* document of the whole collection.
C9_PerElementDocuments ==
    \A T \in {<<"Vec","R">>, <<"BTreeSet","R">>, <<"HashSet","R">>} :
        (Printed(T) /\ input.val # <<>> /\ input.fmt \in {"Yaml", "Json", "Id", "Compact"}) =>
            /\ panicked = "none"
            /\ out = PerElement(input.val, input.fmt)
            /\ Len(StdoutLines) = Len(input.val)
            /\ (input.fmt \in {"Yaml", "Json"} /\ serializable(T, input.val)) =>
                  \A i \in 1..Len(StdoutLines) :
                      StdoutLines[i] # AggregateDocument(T, input.val, input.fmt)

C9_Witness ==
    /\ Printed(<<"Vec","R">>) /\ input.fmt = "Yaml"
    /\ input.val = <<RecordList[2], RecordList[1]>>
    /\ StdoutLines = << <<"yaml", "{", "y", "}", "\n">>, <<"yaml", "{", "x", "}", "\n">> >>

\* C10: no output_print call, in any format and on any value the trait
\* bounds accept (containers of containers included), reaches a panic site.
C10_NoPanicSiteReached ==
    (pc = "done" /\ input.op = "output_print") => panicked = "none"

====
